---- MODULE Spec2Model ----
(***************************************************************************)
(* A model of style-loader's runtime helper addStyles.js: the registry    *)
(* stylesInDom, the grouping listToStyles, the element inserter, the part *)
(* handles made by addStyle (singleton, blob link, inline) and the public *)
(* entry point with the update closure it returns.                        *)
(*                                                                         *)
(* JavaScript objects live in heaps: a reference is the index of the      *)
(* object in its heap (a sequence), so object identity (===) is equality  *)
(* of indices.  0 is null / undefined where a reference is expected.      *)
(* An exception is the field err of the world record: once it is set,     *)
(* every later step of the same call leaves the world as it is, which is  *)
(* how a throw unwinds to the caller of the public function.              *)
(***************************************************************************)
EXTENDS Integers, Sequences, FiniteSets, TLC

\* ---------------------------------------------------------------- bounds
\* Number of calls of the exported function (installs) in one behaviour.
MaxInstalls == 2
\* Number of invocations of returned update closures in one behaviour.
MaxCalls == 2
\* Length of the lists handed to install.
MaxLen == 2
\* Length of the lists handed to update closures.
MaxUpdateLen == 1
\* Length of the lists the grouping function is checked on.
MaxGroupLen == 3

\* Number of part handles made, and of invocations of part handles, in one
\* behaviour of the part specification.
MaxParts == 2
MaxPartCalls == 3
\* Number of calls of addStyle, those that throw included, in one behaviour.
MaxAdds == 3

\* ---------------------------------------------------------------- values
Null == 0
Undefined == "undefined"
NoError == "none"

Ids == {1, 2}
Css == {"a", "b"}
\* A part as listToStyles builds it from an item [id, css, media, sourceMap].
\* An absent source map is Undefined.
Part(css, media, sourceMap) == [css |-> css, media |-> media, sourceMap |-> sourceMap]
\* The argument of a part handle invoked with nothing: updateStyle().
NoPart == Part(Undefined, Undefined, Undefined)

\* The items of the lifecycle specifications: module 1 without a source map
\* (two versions of its css) and module 2 with a source map.
Items == {<<1, "a", "", Undefined>>, <<1, "b", "", Undefined>>, <<2, "a", "", "sm">>}

RECURSIVE SeqsUpTo(_, _)
SeqsUpTo(S, n) ==
    IF n = 0 THEN {<<>>}
    ELSE LET shorter == SeqsUpTo(S, n - 1)
         IN shorter \cup {Append(s, x) : s \in {t \in shorter : Len(t) = n - 1}, x \in S}

Lists == SeqsUpTo(Items, MaxLen)
UpdateLists == SeqsUpTo(Items, MaxUpdateLen)

\* The items of the grouping specification: every id with every css.
GroupItems == {<<id, css, "", Undefined>> : id \in Ids, css \in Css}
GroupLists == SeqsUpTo(GroupItems, MaxGroupLen)

\* Selectors: "head" and "#app" resolve to nodes of the document, "#none" does not.
Targets == {"head", "#app"}
Selectors == Targets \cup {"#none"}

\* Environments: what the globals of the page offer.
\*   oldIE      document.all && !window.atob                 (isOldIE)
\*   styleSheet style elements carry the legacy styleSheet property
\*   blob       URL.createObjectURL, URL.revokeObjectURL, Blob and btoa exist
Modern == [oldIE |-> FALSE, styleSheet |-> FALSE, blob |-> TRUE]
Legacy == [oldIE |-> TRUE, styleSheet |-> TRUE, blob |-> FALSE]
Envs == {Modern, Legacy}

\* The options object a caller passes; Undefined marks an option left unset.
DefaultOptions ==
    [singleton |-> Undefined, insertInto |-> Undefined, insertAt |-> Undefined,
     convertToAbsoluteUrls |-> Undefined, attrs |-> {}]

\* ---------------------------------------------------------------- state
VARIABLES
    env,                        \* the environment (fixed)
    cache,                      \* stylesInDom's cache: id -> <<style, domStyle>> pairs
    domStyles,                  \* heap of StyleInDOM objects {id, refs, parts}
    handles,                    \* heap of updateStyle closures (part handles)
    nodes,                      \* heap of DOM nodes
    children,                   \* target -> its child nodes, in document order
    styleElementsInsertedAtTop, \* elements inserted with insertAt "top"
    singletonElement,           \* the shared style element, or Null
    singletonCounter,           \* next slot index of singleton mode
    textStore,                  \* replaceText's store, one text per slot index
    blobs,                      \* object URLs created so far: content, times revoked
    memo,                       \* getElement's memo: selector -> result
    styleCount,                 \* number of Style objects made by listToStyles
    closures,                   \* the update closures returned so far: styles, options
    history                     \* the calls made so far: kind, arguments, events, error

vars == <<env, cache, domStyles, handles, nodes, children, styleElementsInsertedAtTop,
          singletonElement, singletonCounter, textStore, blobs, memo, styleCount,
          closures, history>>

\* The program state as one record, threaded through the steps of a call,
\* with the call's own data: options is its options object, ret the value
\* the last step returned, parts and mayRemove the local arrays of those
\* names, log the events of the call so far and err the exception thrown.
World(options) ==
    [cache |-> cache, domStyles |-> domStyles, handles |-> handles, nodes |-> nodes,
     children |-> children, styleElementsInsertedAtTop |-> styleElementsInsertedAtTop,
     singletonElement |-> singletonElement, singletonCounter |-> singletonCounter,
     textStore |-> textStore, blobs |-> blobs, memo |-> memo, styleCount |-> styleCount,
     options |-> options, ret |-> Null, parts |-> <<>>, mayRemove |-> <<>>,
     log |-> <<>>, err |-> NoError]

Throw(w, e) == [w EXCEPT !.err = e]
Failed(w) == w.err # NoError
\* An event of the call: an operation and the references it acts on.
Event(w, op, x, y) == [w EXCEPT !.log = Append(@, <<op, x, y>>)]

\* ---------------------------------------------------------------- listToStyles
\* newStyles maps an id to the index in result of its Style (0: no such key).
\* A Style object gets the next free reference when it is made.
\* A grouping that opens a new descriptor for every id that differs from the
\* id of the item before it, whether or not the id was seen earlier.
RECURSIVE listToStylesUngrouped(_, _, _, _, _)
listToStylesUngrouped(list, i, result, newStyles, base) ==
    IF i > Len(list) THEN result
    ELSE IF i > 1 /\ list[i - 1][1] = list[i][1]
    THEN listToStylesUngrouped(list, i + 1,
             [result EXCEPT ![Len(result)].parts =
                                Append(@, Part(list[i][2], list[i][3], list[i][4]))],
             newStyles, base)
    ELSE listToStylesUngrouped(list, i + 1,
             Append(result, [ref |-> base + Len(result) + 1, id |-> list[i][1],
                             parts |-> <<Part(list[i][2], list[i][3], list[i][4])>>]),
             newStyles, base)

RECURSIVE listToStylesLoop(_, _, _, _, _)
listToStylesLoop(list, i, result, newStyles, base) ==
    IF i > Len(list) THEN result
    ELSE LET item == list[i]
             id == item[1]
             part == Part(item[2], item[3], item[4])
         IN IF newStyles[id] = 0
            THEN listToStylesLoop(list, i + 1,
                     Append(result, [ref |-> base + Len(result) + 1, id |-> id,
                                     parts |-> <<part>>]),
                     [newStyles EXCEPT ![id] = Len(result) + 1], base)
            ELSE listToStylesLoop(list, i + 1,
                     [result EXCEPT ![newStyles[id]].parts = Append(@, part)],
                     newStyles, base)

listToStyles(list, base) == listToStylesLoop(list, 1, <<>>, [id \in Ids |-> 0], base)

\* ---------------------------------------------------------------- stylesInDom
\* A lookup by id alone: the domStyle of the first pair kept under the id.
stylesInDomGetById(w, style) ==
    IF Len(w.cache[style.id]) = 0 THEN Null ELSE w.cache[style.id][1][2]

\* A lookup by id alone: the domStyle of the pair set last under the id.
stylesInDomGetLatest(w, style) ==
    IF Len(w.cache[style.id]) = 0 THEN Null
    ELSE w.cache[style.id][Len(w.cache[style.id])][2]

\* get: the domStyle of the first pair whose style is this very object.
stylesInDomGet(w, style) ==
    LET existing == w.cache[style.id]
        found == SelectSeq(existing, LAMBDA s : s[1] = style.ref)
    IN IF Len(found) = 0 THEN Null ELSE found[1][2]

RECURSIVE IndexOfStyle(_, _, _)
IndexOfStyle(existing, ref, i) ==
    IF i > Len(existing) THEN 0
    ELSE IF existing[i][1] = ref THEN i
    ELSE IndexOfStyle(existing, ref, i + 1)

stylesInDomSet(w, style, dom) ==
    LET existing == w.cache[style.id]
        i == IndexOfStyle(existing, style.ref, 1)
    IN IF Len(existing) = 0 THEN [w EXCEPT !.cache[style.id] = <<<<style.ref, dom>>>>]
       ELSE IF i # 0 THEN [w EXCEPT !.cache[style.id][i] = <<style.ref, dom>>]
       ELSE [w EXCEPT !.cache[style.id] = Append(@, <<style.ref, dom>>)]

\* delete: the filtered list is a local of the function and is never stored;
\* the key is deleted when no other pair is left, else the cache is as before.
stylesInDomDelete(w, dom) ==
    LET id == w.domStyles[dom].id
        existing == SelectSeq(w.cache[id], LAMBDA s : s[2] # dom)
    IN IF Len(existing) = 0 THEN [w EXCEPT !.cache[id] = <<>>] ELSE w

\* ---------------------------------------------------------------- document
NoParent == "none"
\* document.createElement(tag): a new node, in no parent.
NewNode(tag) ==
    [tag |-> tag, parent |-> NoParent, attrs |-> {}, childNodes |-> <<>>,
     cssText |-> "", href |-> Null]
createElement(w, tag) ==
    LET n == Len(w.nodes) + 1
    IN Event([w EXCEPT !.nodes = Append(@, NewNode(tag)), !.ret = n], "createElement", n, 0)

\* The value of a JavaScript string in a condition.
Truthy(s) == s # Undefined /\ s # ""

\* document.querySelector(selector): the node, or null.
querySelector(selector) == IF selector \in Targets THEN selector ELSE "null"
\* getElement: the selector is resolved on its first use only.
getElement(w, selector) ==
    IF w.memo[selector] = Undefined
    THEN [w EXCEPT !.memo[selector] = querySelector(selector)]
    ELSE w

RECURSIVE IndexOf(_, _, _)
IndexOf(seq, x, i) ==
    IF i > Len(seq) THEN 0 ELSE IF seq[i] = x THEN i ELSE IndexOf(seq, x, i + 1)
RemoveAt(seq, i) == SubSeq(seq, 1, i - 1) \o SubSeq(seq, i + 1, Len(seq))
InsertAt(seq, i, x) == SubSeq(seq, 1, i - 1) \o <<x>> \o SubSeq(seq, i, Len(seq))

firstChild(w, target) ==
    IF Len(w.children[target]) = 0 THEN Null ELSE w.children[target][1]
nextSibling(w, node) ==
    LET p == w.nodes[node].parent
    IN IF p = NoParent THEN Null
       ELSE LET i == IndexOf(w.children[p], node, 1)
            IN IF i < Len(w.children[p]) THEN w.children[p][i + 1] ELSE Null

appendChild(w, target, el) ==
    Event([w EXCEPT !.children[target] = Append(@, el), !.nodes[el].parent = target],
          "insert", el, 0)
\* target.insertBefore(el, ref): a null ref appends; a ref that is not a child
\* of target is a NotFoundError.
insertBefore(w, target, el, ref) ==
    IF ref = Null THEN appendChild(w, target, el)
    ELSE IF w.nodes[ref].parent # target THEN Throw(w, "NotFoundError")
    ELSE Event([w EXCEPT !.children[target] = InsertAt(@, IndexOf(@, ref, 1), el),
                         !.nodes[el].parent = target],
               "insert", el, 0)

\* An inserter whose "top" puts every element before the first child of the
\* target, whatever was inserted at the top before.
insertStyleElementFirst(w, styleElement) ==
    LET w1 == getElement(w, w.options.insertInto)
        styleTarget == w1.memo[w.options.insertInto]
    IN IF styleTarget = "null" THEN Throw(w1, "NoStyleTarget")
       ELSE IF w.options.insertAt = "top"
       THEN [insertBefore(w1, styleTarget, styleElement, firstChild(w1, styleTarget))
                EXCEPT !.styleElementsInsertedAtTop = Append(@, styleElement)]
       ELSE IF w.options.insertAt = "bottom"
       THEN appendChild(w1, styleTarget, styleElement)
       ELSE Throw(w1, "InvalidInsertAt")

insertStyleElement(w, styleElement) ==
    LET w1 == getElement(w, w.options.insertInto)
        styleTarget == w1.memo[w.options.insertInto]
        top == w1.styleElementsInsertedAtTop
        lastStyleElementInsertedAtTop == IF Len(top) = 0 THEN Null ELSE top[Len(top)]
    IN IF styleTarget = "null" THEN Throw(w1, "NoStyleTarget")
       ELSE IF w.options.insertAt = "top"
       THEN LET w2 == IF lastStyleElementInsertedAtTop = Null
                      THEN insertBefore(w1, styleTarget, styleElement,
                                        firstChild(w1, styleTarget))
                      ELSE IF nextSibling(w1, lastStyleElementInsertedAtTop) # Null
                      THEN insertBefore(w1, styleTarget, styleElement,
                                        nextSibling(w1, lastStyleElementInsertedAtTop))
                      ELSE appendChild(w1, styleTarget, styleElement)
            IN IF Failed(w2) THEN w2
               ELSE [w2 EXCEPT !.styleElementsInsertedAtTop = Append(@, styleElement)]
       ELSE IF w.options.insertAt = "bottom"
       THEN appendChild(w1, styleTarget, styleElement)
       ELSE Throw(w1, "InvalidInsertAt")

\* styleElement.parentNode.removeChild(styleElement): a detached element has
\* no parentNode, and reading removeChild of null is a TypeError.
\* A removal that forgets the element in styleElementsInsertedAtTop and
\* leaves it in the document.
removeStyleElementListOnly(w, styleElement) ==
    IF w.nodes[styleElement].parent = NoParent THEN Throw(w, "TypeError")
    ELSE IF IndexOf(w.styleElementsInsertedAtTop, styleElement, 1) >= 1
    THEN [w EXCEPT !.styleElementsInsertedAtTop =
                       RemoveAt(@, IndexOf(@, styleElement, 1))]
    ELSE w

\* A removal that detaches the element and leaves styleElementsInsertedAtTop
\* as it is.
removeStyleElementKeepsList(w, styleElement) ==
    IF w.nodes[styleElement].parent = NoParent THEN Throw(w, "TypeError")
    ELSE Event([w EXCEPT !.children[w.nodes[styleElement].parent] =
                             RemoveAt(@, IndexOf(@, styleElement, 1)),
                         !.nodes[styleElement].parent = NoParent],
               "detach", styleElement, 0)

removeStyleElement(w, styleElement) ==
    LET p == w.nodes[styleElement].parent
        idx == IndexOf(w.styleElementsInsertedAtTop, styleElement, 1)
    IN IF p = NoParent THEN Throw(w, "TypeError")
       ELSE LET w1 == Event([w EXCEPT !.children[p] = RemoveAt(@, IndexOf(@, styleElement, 1)),
                                      !.nodes[styleElement].parent = NoParent],
                            "detach", styleElement, 0)
            IN IF idx >= 1
               THEN [w1 EXCEPT !.styleElementsInsertedAtTop = RemoveAt(@, idx)]
               ELSE w1

\* Attributes are a set of <<name, value>> pairs with one pair per name.
SetAttr(attrs, key, value) == {a \in attrs : a[1] # key} \cup {<<key, value>>}
RECURSIVE SetAttrs(_, _)
SetAttrs(attrs, more) ==
    IF more = {} THEN attrs
    ELSE LET a == CHOOSE x \in more : TRUE
         IN SetAttrs(SetAttr(attrs, a[1], a[2]), more \ {a})
attachTagAttrs(w, element, attrs) ==
    [w EXCEPT !.nodes[element].attrs = SetAttrs(@, attrs)]

\* createElement, then options.attrs.type (and rel) are written to the options
\* object, where they stay, and the attributes are put on the element.
createTagged(w, tag, attrs) ==
    attachTagAttrs([createElement(w, tag) EXCEPT !.options.attrs = attrs],
                   Len(w.nodes) + 1, attrs)
\* insertStyleElement(options, element); return element
insertCreated(w) == [insertStyleElement(w, w.ret) EXCEPT !.ret = w.ret]

createStyleElement(w) ==
    insertCreated(createTagged(w, "style", SetAttr(w.options.attrs, "type", "text/css")))

createLinkElement(w) ==
    insertCreated(createTagged(w, "link",
        SetAttr(SetAttr(w.options.attrs, "type", "text/css"), "rel", "stylesheet")))

\* ---------------------------------------------------------------- part updaters
\* Array.prototype.filter(Boolean).join("\n") of the store.
RECURSIVE JoinNonEmpty(_, _, _)
JoinNonEmpty(store, i, acc) ==
    IF i > Len(store) THEN acc
    ELSE IF store[i] = "" THEN JoinNonEmpty(store, i + 1, acc)
    ELSE JoinNonEmpty(store, i + 1, IF acc = "" THEN store[i] ELSE acc \o "\n" \o store[i])

\* A hole of the sparse array and an empty text are the same to filter(Boolean):
\* both are "" here.  Slot index i (from 0) is position i + 1.
RECURSIVE PadTo(_, _)
PadTo(store, n) == IF Len(store) >= n THEN store ELSE PadTo(Append(store, ""), n)
\* replaceText(index, replacement): the store after the write; its result is
\* JoinNonEmpty of that store.
replaceText(store, index, replacement) ==
    [PadTo(store, index + 1) EXCEPT ![index + 1] = replacement]

applyToSingletonTag(w, styleElement, index, remove, obj) ==
    LET css == IF remove THEN "" ELSE obj.css
    IN IF env.styleSheet
       THEN LET store == replaceText(w.textStore, index, css)
            IN Event([w EXCEPT !.textStore = store,
                               !.nodes[styleElement].cssText = JoinNonEmpty(store, 1, "")],
                     "write", styleElement, index)
       ELSE LET childNodes == w.nodes[styleElement].childNodes
                removed == IF index + 1 <= Len(childNodes)
                           THEN RemoveAt(childNodes, index + 1) ELSE childNodes
                \* insertBefore(cssNode, childNodes[index]); an undefined
                \* reference node appends.
                inserted == IF Len(removed) # 0
                            THEN IF index + 1 <= Len(removed)
                                 THEN InsertAt(removed, index + 1, css)
                                 ELSE Append(removed, css)
                            ELSE <<css>>
            IN Event([w EXCEPT !.nodes[styleElement].childNodes = inserted],
                     "write", styleElement, index)

\* An inline update that writes the css with its urls rewritten.
applyToTagFixing(w, styleElement, obj) ==
    LET w1 == IF Truthy(obj.media)
              THEN [w EXCEPT !.nodes[styleElement].attrs = SetAttr(@, "media", obj.media)]
              ELSE w
    IN IF env.styleSheet
       THEN Event([w1 EXCEPT !.nodes[styleElement].cssText = "abs(" \o obj.css \o ")"],
                  "write", styleElement, 0)
       ELSE Event([w1 EXCEPT !.nodes[styleElement].childNodes = <<"abs(" \o obj.css \o ")">>],
                  "write", styleElement, 0)

applyToTag(w, styleElement, obj) ==
    LET w1 == IF Truthy(obj.media)
              THEN [w EXCEPT !.nodes[styleElement].attrs = SetAttr(@, "media", obj.media)]
              ELSE w
    IN IF env.styleSheet
       THEN Event([w1 EXCEPT !.nodes[styleElement].cssText = obj.css],
                  "write", styleElement, 0)
       ELSE Event([w1 EXCEPT !.nodes[styleElement].childNodes = <<obj.css>>],
                  "write", styleElement, 0)

\* The URL fixer: css text with its relative urls made absolute.
fixUrls(css) == "abs(" \o css \o ")"
\* btoa(unescape(encodeURIComponent(JSON.stringify(sourceMap))))
Base64(sourceMap) == "base64(" \o sourceMap \o ")"

revokeObjectURL(w, url) ==
    Event([w EXCEPT !.blobs[url].revoked = @ + 1], "revoke", url, 0)

\* An update of a link that revokes the old URL first and assigns the new
\* href afterwards.
updateLinkRevokeFirst(w, linkElement, convertToAbsoluteUrls, obj) ==
    LET oldSrc == w.nodes[linkElement].href
        w0 == IF oldSrc # Null THEN revokeObjectURL(w, oldSrc) ELSE w
        url == Len(w.blobs) + 1
    IN Event(Event([w0 EXCEPT !.blobs = Append(@, [css |-> obj.css, revoked |-> 0]),
                              !.nodes[linkElement].href = url],
                   "createObjectURL", url, 0),
             "href", linkElement, url)

\* An update of a link that rewrites the urls of every css it is given.
updateLinkFixesAlways(w, linkElement, convertToAbsoluteUrls, obj) ==
    LET css2 == IF Truthy(obj.sourceMap)
                THEN fixUrls(obj.css)
                         \o "\n/*# sourceMappingURL=data:application/json;base64,"
                         \o Base64(obj.sourceMap) \o " */"
                ELSE fixUrls(obj.css)
        oldSrc == w.nodes[linkElement].href
        url == Len(w.blobs) + 1
        w1 == Event(Event([w EXCEPT !.blobs = Append(@, [css |-> css2, revoked |-> 0]),
                                    !.nodes[linkElement].href = url],
                          "createObjectURL", url, 0),
                    "href", linkElement, url)
    IN IF oldSrc # Null THEN revokeObjectURL(w1, oldSrc) ELSE w1

updateLink(w, linkElement, convertToAbsoluteUrls, obj) ==
    LET sourceMap == obj.sourceMap
        autoFixUrls == convertToAbsoluteUrls = Undefined /\ Truthy(sourceMap)
        css1 == IF convertToAbsoluteUrls = "true" \/ autoFixUrls
                THEN fixUrls(obj.css) ELSE obj.css
        css2 == IF Truthy(sourceMap)
                THEN css1 \o "\n/*# sourceMappingURL=data:application/json;base64,"
                          \o Base64(sourceMap) \o " */"
                ELSE css1
        oldSrc == w.nodes[linkElement].href
        url == Len(w.blobs) + 1
        w1 == Event(Event([w EXCEPT !.blobs = Append(@, [css |-> css2, revoked |-> 0]),
                                    !.nodes[linkElement].href = url],
                          "createObjectURL", url, 0),
                    "href", linkElement, url)
    IN IF oldSrc # Null THEN revokeObjectURL(w1, oldSrc) ELSE w1

\* ---------------------------------------------------------------- addStyle
\* The update and remove functions of a handle, by the strategy addStyle chose.
HandleUpdate(w, h, obj) ==
    CASE w.handles[h].mode = "singleton" ->
           applyToSingletonTag(w, w.handles[h].styleElement, w.handles[h].styleIndex,
                               FALSE, obj)
      [] w.handles[h].mode = "link" ->
           updateLink(w, w.handles[h].styleElement, w.handles[h].convertToAbsoluteUrls, obj)
      [] w.handles[h].mode = "inline" ->
           applyToTag(w, w.handles[h].styleElement, obj)

\* A removal of a link that leaves its href as it is.
revokeHrefSkipped(w, linkElement) == w

\* if (styleElement.href) URL.revokeObjectURL(styleElement.href)
revokeHref(w, linkElement) ==
    IF Failed(w) \/ w.nodes[linkElement].href = Null THEN w
    ELSE revokeObjectURL(w, w.nodes[linkElement].href)

\* A removal whose link branch revokes the href and keeps the link attached.
HandleRemoveKeepsLink(w, h) ==
    CASE w.handles[h].mode = "singleton" ->
           applyToSingletonTag(w, w.handles[h].styleElement, w.handles[h].styleIndex,
                               TRUE, NoPart)
      [] w.handles[h].mode = "link" ->
           revokeHref(w, w.handles[h].styleElement)
      [] w.handles[h].mode = "inline" ->
           removeStyleElement(w, w.handles[h].styleElement)

HandleRemove(w, h) ==
    CASE w.handles[h].mode = "singleton" ->
           applyToSingletonTag(w, w.handles[h].styleElement, w.handles[h].styleIndex,
                               TRUE, NoPart)
      [] w.handles[h].mode = "link" ->
           revokeHref(removeStyleElement(w, w.handles[h].styleElement),
                      w.handles[h].styleElement)
      [] w.handles[h].mode = "inline" ->
           removeStyleElement(w, w.handles[h].styleElement)

\* A handle that applies every part it is given.
updateStyleAlways(w, h, newObj) ==
    IF Failed(w) THEN w
    ELSE IF newObj # NoPart
    THEN HandleUpdate([w EXCEPT !.handles[h].obj = newObj], h, newObj)
    ELSE HandleRemove(w, h)

\* The closure addStyle returns, invoked: updateStyle(newObj).
updateStyle(w, h, newObj) ==
    IF Failed(w) THEN w
    ELSE IF newObj # NoPart
    THEN IF newObj = w.handles[h].obj THEN w
         ELSE HandleUpdate([w EXCEPT !.handles[h].obj = newObj], h, newObj)
    ELSE HandleRemove(w, h)

\* A choice that takes a blob link for every part with a source map, whether
\* the environment has object URLs, Blob and btoa or not.
StrategyWithoutBlobTest(obj, options) ==
    IF options.singleton THEN "singleton"
    ELSE IF Truthy(obj.sourceMap) THEN "link"
    ELSE "inline"

\* The strategy of a new handle: singleton, blob link or inline.
Strategy(obj, options) ==
    IF options.singleton THEN "singleton"
    ELSE IF Truthy(obj.sourceMap) /\ env.blob THEN "link"
    ELSE "inline"

\* The created element is not kept as the shared element.
rememberSingletonNot(w) == w

\* singletonElement = createStyleElement(options)
rememberSingleton(w) == IF Failed(w) THEN w ELSE [w EXCEPT !.singletonElement = w.ret]

\* Singleton mode that takes a new slot index only with a new shared element.
acquireElementReusing(w, mode) ==
    CASE mode = "singleton" ->
           IF w.singletonElement # Null
           THEN [w EXCEPT !.ret = w.singletonElement]
           ELSE rememberSingleton(createStyleElement([w EXCEPT !.singletonCounter = @ + 1]))
      [] mode = "link" -> createLinkElement(w)
      [] mode = "inline" -> createStyleElement(w)

\* The element of a new handle (ret).  Singleton mode takes the slot index
\* first and creates the shared element when there is none yet.
acquireElement(w, mode) ==
    CASE mode = "singleton" ->
           IF w.singletonElement # Null
           THEN [w EXCEPT !.singletonCounter = @ + 1, !.ret = w.singletonElement]
           ELSE rememberSingleton(createStyleElement([w EXCEPT !.singletonCounter = @ + 1]))
      [] mode = "link" -> createLinkElement(w)
      [] mode = "inline" -> createStyleElement(w)

\* update(obj), and the closure updateStyle over obj, update and remove (ret).
\* The closure is allocated before the first update here, so that the update
\* can be addressed through it; neither step can throw.
makeHandle(w, mode, styleIndex, obj) ==
    IF Failed(w) THEN w
    ELSE HandleUpdate(
             [w EXCEPT !.handles = Append(@,
                           [mode |-> mode, styleElement |-> w.ret,
                            styleIndex |-> styleIndex, obj |-> obj,
                            convertToAbsoluteUrls |-> w.options.convertToAbsoluteUrls]),
                       !.ret = Len(w.handles) + 1],
             Len(w.handles) + 1, obj)

addStyle(w, obj) ==
    IF Failed(w) THEN w
    ELSE makeHandle(acquireElement(w, Strategy(obj, w.options)),
                    Strategy(obj, w.options), w.singletonCounter, obj)

\* ---------------------------------------------------------------- addStylesToDom
\* parts.push(<the handle addStyle returned>) on the local array parts
pushPart(w) == IF Failed(w) THEN w ELSE [w EXCEPT !.parts = Append(@, w.ret)]

RECURSIVE createParts(_, _, _)
createParts(w, style, j) ==
    IF Failed(w) \/ j > Len(style.parts) THEN w
    ELSE createParts(pushPart(addStyle(w, style.parts[j])), style, j + 1)

\* domStyle.parts[j](style.parts[j]) for the handles the entry has; a style
\* with fewer parts hands undefined to the handle, which removes.
RECURSIVE refreshParts(_, _, _, _)
refreshParts(w, domStyle, style, j) ==
    IF Failed(w) \/ j > Len(w.domStyles[domStyle].parts) THEN w
    ELSE refreshParts(updateStyle(w, w.domStyles[domStyle].parts[j],
                                  IF j <= Len(style.parts) THEN style.parts[j] ELSE NoPart),
                      domStyle, style, j + 1)

\* domStyle.parts.push(<the handle addStyle returned>)
pushDomPart(w, domStyle) ==
    IF Failed(w) THEN w ELSE [w EXCEPT !.domStyles[domStyle].parts = Append(@, w.ret)]

RECURSIVE appendParts(_, _, _, _)
appendParts(w, domStyle, style, j) ==
    IF Failed(w) \/ j > Len(style.parts) THEN w
    ELSE appendParts(pushDomPart(addStyle(w, style.parts[j]), domStyle),
                     domStyle, style, j + 1)

\* The branch of an entry found: refs++, the parts refreshed, new parts appended.
refreshStyle(w, domStyle, style) ==
    appendParts(refreshParts(Event([w EXCEPT !.domStyles[domStyle].refs = @ + 1],
                                   "refs++", domStyle, 0),
                             domStyle, style, 1),
                domStyle, style, Len(w.domStyles[domStyle].parts) + 1)

\* stylesInDom.set(style, { id: style.id, refs: 1, parts: parts })
registerStyle(w, style) ==
    IF Failed(w) THEN w
    ELSE Event(stylesInDomSet([w EXCEPT !.domStyles = Append(@,
                                   [id |-> style.id, refs |-> 1, parts |-> w.parts])],
                              style, Len(w.domStyles) + 1),
               "set", Len(w.domStyles) + 1, style.ref)

\* One style of the loop of addStylesToDom.
addStyleToDom(w, style) ==
    IF stylesInDomGet(w, style) # Null
    THEN refreshStyle(w, stylesInDomGet(w, style), style)
    ELSE registerStyle(createParts([w EXCEPT !.parts = <<>>], style, 1), style)

RECURSIVE addStylesToDomLoop(_, _, _)
addStylesToDomLoop(w, styles, i) ==
    IF Failed(w) \/ i > Len(styles) THEN w
    ELSE addStylesToDomLoop(addStyleToDom(w, styles[i]), styles, i + 1)

addStylesToDom(w, styles) == addStylesToDomLoop(w, styles, 1)

\* ---------------------------------------------------------------- module.exports
isOldIE == env.oldIE

\* The defaults of the options object.
ResolveOptions(options) ==
    [singleton |-> IF options.singleton = Undefined THEN isOldIE
                   ELSE options.singleton = "true",
     insertInto |-> IF options.insertInto = Undefined THEN "head" ELSE options.insertInto,
     insertAt |-> IF options.insertAt = Undefined THEN "bottom" ELSE options.insertAt,
     convertToAbsoluteUrls |-> options.convertToAbsoluteUrls,
     attrs |-> options.attrs]

\* var styles = listToStyles(list); addStylesToDom(styles, options);
install(w, list) ==
    addStylesToDom([w EXCEPT !.styleCount = @ + Len(listToStyles(list, w.styleCount))],
                   listToStyles(list, w.styleCount))

\* The first loop of update: domStyle.refs-- for every style of the closure,
\* each domStyle pushed to mayRemove.  A style the registry does not hold
\* gives undefined, and reading refs of undefined is a TypeError.
decrement(w, domStyle) ==
    IF domStyle = Null THEN Throw(w, "TypeError")
    ELSE Event([w EXCEPT !.domStyles[domStyle].refs = @ - 1,
                         !.mayRemove = Append(@, domStyle)],
               "refs--", domStyle, 0)

RECURSIVE decrementLoop(_, _, _)
decrementLoop(w, styles, i) ==
    IF Failed(w) \/ i > Len(styles) THEN w
    ELSE decrementLoop(decrement(w, stylesInDomGet(w, styles[i])), styles, i + 1)

\* if (newList) { addStylesToDom(listToStyles(newList), options) }
installNew(w, given, newList) ==
    IF Failed(w) \/ ~given THEN w ELSE install(w, newList)

RECURSIVE removeParts(_, _, _)
removeParts(w, domStyle, j) ==
    IF Failed(w) \/ j > Len(w.domStyles[domStyle].parts) THEN w
    ELSE removeParts(updateStyle(w, w.domStyles[domStyle].parts[j], NoPart),
                     domStyle, j + 1)

evict(w, domStyle) ==
    IF Failed(w) THEN w ELSE Event(stylesInDomDelete(w, domStyle), "delete", domStyle, 0)

\* The last loop of update: the entries of mayRemove whose refs is 0 now.
RECURSIVE removeLoop(_, _)
removeLoop(w, i) ==
    IF Failed(w) \/ i > Len(w.mayRemove) THEN w
    ELSE IF w.domStyles[w.mayRemove[i]].refs = 0
    THEN removeLoop(evict(removeParts(w, w.mayRemove[i], 1), w.mayRemove[i]), i + 1)
    ELSE removeLoop(w, i + 1)

\* update(newList) of a closure over styles; given is FALSE for update().
update(w, styles, given, newList) ==
    removeLoop(installNew(decrementLoop(w, styles, 1), given, newList), 1)

\* ---------------------------------------------------------------- actions
NumCalls(kinds) == Cardinality({i \in DOMAIN history : history[i].kind \in kinds})

\* The call returns (or throws): the program state is the world it leaves.
\* An install that returns adds its closure; a closure keeps its options object.
Return(kind, k, list, w) ==
    /\ cache' = w.cache
    /\ domStyles' = w.domStyles
    /\ handles' = w.handles
    /\ nodes' = w.nodes
    /\ children' = w.children
    /\ styleElementsInsertedAtTop' = w.styleElementsInsertedAtTop
    /\ singletonElement' = w.singletonElement
    /\ singletonCounter' = w.singletonCounter
    /\ textStore' = w.textStore
    /\ blobs' = w.blobs
    /\ memo' = w.memo
    /\ styleCount' = w.styleCount
    /\ closures' = IF kind = "install"
                   THEN IF Failed(w) THEN closures
                        ELSE Append(closures, [styles |-> listToStyles(list, styleCount),
                                               options |-> w.options])
                   ELSE [closures EXCEPT ![k].options = w.options]
    /\ history' = Append(history,
           [kind |-> kind,
            closure |-> IF kind # "install" THEN k
                        ELSE IF Failed(w) THEN 0 ELSE Len(closures) + 1,
            list |-> list, options |-> w.options, log |-> w.log, err |-> w.err])
    /\ UNCHANGED env

\* update = require("addStyles")(list, options)
Install(list, options) ==
    /\ NumCalls({"install"}) < MaxInstalls
    /\ Return("install", 0, list, install(World(ResolveOptions(options)), list))

\* update(newList) on the k-th closure
Update(k, newList) ==
    /\ NumCalls({"update", "teardown"}) < MaxCalls
    /\ Return("update", k, newList,
              update(World(closures[k].options), closures[k].styles, TRUE, newList))

\* update() on the k-th closure
Teardown(k) ==
    /\ NumCalls({"update", "teardown"}) < MaxCalls
    /\ Return("teardown", k, <<>>,
              update(World(closures[k].options), closures[k].styles, FALSE, <<>>))

\* A call of addStyle or of a part handle returns (or throws).
ReturnPart(kind, h, obj, w) ==
    /\ cache' = w.cache
    /\ domStyles' = w.domStyles
    /\ handles' = w.handles
    /\ nodes' = w.nodes
    /\ children' = w.children
    /\ styleElementsInsertedAtTop' = w.styleElementsInsertedAtTop
    /\ singletonElement' = w.singletonElement
    /\ singletonCounter' = w.singletonCounter
    /\ textStore' = w.textStore
    /\ blobs' = w.blobs
    /\ memo' = w.memo
    /\ styleCount' = w.styleCount
    /\ history' = Append(history,
           [kind |-> kind, closure |-> 0, list |-> <<>>, options |-> w.options,
            handle |-> IF kind # "addStyle" THEN h ELSE IF Failed(w) THEN 0 ELSE w.ret,
            obj |-> obj, log |-> w.log, err |-> w.err])
    /\ UNCHANGED <<env, closures>>

\* The part handle h was invoked with nothing: the part is removed.
PartRemoved(h) ==
    \E j \in DOMAIN history : history[j].kind = "removeStyle" /\ history[j].handle = h

\* handle = addStyle(obj, options)
AddStyle(obj, options) ==
    /\ Len(handles) < MaxParts
    /\ NumCalls({"addStyle"}) < MaxAdds
    /\ ReturnPart("addStyle", 0, obj, addStyle(World(ResolveOptions(options)), obj))

\* handle(newObj).  addStylesToDom invokes the handles of entries the registry
\* holds, and update removes the parts of an entry once, when its refs
\* reaches 0: a part is created, updated any number of times, then removed.
UpdateStyle(h, newObj) ==
    /\ NumCalls({"updateStyle", "removeStyle"}) < MaxPartCalls
    /\ ~PartRemoved(h)
    /\ ReturnPart("updateStyle", h, newObj,
                  updateStyle(World(ResolveOptions(DefaultOptions)), h, newObj))

\* handle()
RemoveStyle(h) ==
    /\ NumCalls({"updateStyle", "removeStyle"}) < MaxPartCalls
    /\ ~PartRemoved(h)
    /\ ReturnPart("removeStyle", h, NoPart,
                  updateStyle(World(ResolveOptions(DefaultOptions)), h, NoPart))

\* The module's own state when it is loaded: nothing cached, no element kept.
InitModule ==
    /\ cache = [id \in Ids |-> <<>>]
    /\ domStyles = <<>>
    /\ handles = <<>>
    /\ styleElementsInsertedAtTop = <<>>
    /\ singletonElement = Null
    /\ singletonCounter = 0
    /\ textStore = <<>>
    /\ blobs = <<>>
    /\ memo = [s \in Selectors |-> Undefined]
    /\ styleCount = 0
    /\ closures = <<>>
    /\ history = <<>>

\* The page before the first call: each target has one child of its own.
InitPage ==
    /\ InitModule
    /\ nodes = <<[NewNode("meta") EXCEPT !.parent = "head"],
                 [NewNode("div") EXCEPT !.parent = "#app"]>>
    /\ children = [t \in Targets |-> IF t = "head" THEN <<1>> ELSE <<2>>]

\* A page whose #app has no child yet: its first element becomes its last
\* child, with no next sibling.
InitEmptyApp ==
    /\ InitModule
    /\ nodes = <<[NewNode("meta") EXCEPT !.parent = "head"]>>
    /\ children = [t \in Targets |-> IF t = "head" THEN <<1>> ELSE <<>>]

Init == env \in Envs /\ InitPage

Next ==
    \/ \E list \in Lists : Install(list, DefaultOptions)
    \/ \E k \in DOMAIN closures, newList \in UpdateLists : Update(k, newList)
    \/ \E k \in DOMAIN closures : Teardown(k)

Spec == Init /\ [][Next]_vars

\* The options specification: installs that choose the target, the place of
\* insertion and singleton mode, and teardowns.  "middle" is no value of
\* insertAt and "#none" resolves to no node.
OptionItems == {<<1, "a", "", Undefined>>, <<2, "b", "", "sm">>}
OptionLists == SeqsUpTo(OptionItems, MaxLen)
OptionChoices ==
    {[singleton |-> s, insertInto |-> t, insertAt |-> a,
      convertToAbsoluteUrls |-> Undefined, attrs |-> {}] :
        s \in {Undefined, "true"}, t \in {Undefined, "#app", "#none"},
        a \in {Undefined, "top", "middle"}}

OptionsNext ==
    \/ \E list \in OptionLists, options \in OptionChoices : Install(list, options)
    \/ \E k \in DOMAIN closures : Teardown(k)

InitOptions == env \in Envs /\ (InitPage \/ InitEmptyApp)

SpecOptions == InitOptions /\ [][OptionsNext]_vars

\* The top specification: installs that insert at the top of head or of
\* #app, the update(newList) calls of their closures and their teardowns.
TopNext ==
    \/ \E list \in UpdateLists, t \in {Undefined, "#app"} :
          Install(list, [DefaultOptions EXCEPT !.insertAt = "top", !.insertInto = t])
    \/ \E k \in DOMAIN closures, newList \in UpdateLists : Update(k, newList)
    \/ \E k \in DOMAIN closures : Teardown(k)

SpecTop == InitOptions /\ [][TopNext]_vars

\* The part specification: addStyle and the handles it returns, invoked
\* directly with parts with and without a source map.
PartObjs == {Part("a", "", "sm"), Part("b", "", "sm"), Part("a", "", Undefined)}
PartChoices ==
    {[DefaultOptions EXCEPT !.convertToAbsoluteUrls = c] : c \in {Undefined, "false"}}

PartsNext ==
    \/ \E obj \in PartObjs, options \in PartChoices : AddStyle(obj, options)
    \/ \E h \in DOMAIN handles, newObj \in PartObjs : UpdateStyle(h, newObj)
    \/ \E h \in DOMAIN handles : RemoveStyle(h)

SpecParts == Init /\ [][PartsNext]_vars

\* The strategy specification: addStyle with the options that choose the
\* strategy and the URL rewriting, and the handles it returns.
ModeObjs == {Part("a", "", "sm"), Part("b", "", Undefined), Part("b", "", "")}
ModeChoices ==
    {[DefaultOptions EXCEPT !.singleton = s, !.convertToAbsoluteUrls = c] :
        s \in {Undefined, "true", "false"}, c \in {Undefined, "true", "false"}}

ModesNext ==
    \/ \E obj \in ModeObjs, options \in ModeChoices : AddStyle(obj, options)
    \/ \E h \in DOMAIN handles, newObj \in ModeObjs : UpdateStyle(h, newObj)
    \/ \E h \in DOMAIN handles : RemoveStyle(h)

SpecModes == Init /\ [][ModesNext]_vars

\* The slot specification: addStyle in singleton mode, into the head or into
\* a target that resolves to no node, and the handles it returns.
SlotObjs == {Part("a", "", Undefined), Part("b", "", Undefined)}
SlotChoices ==
    {[DefaultOptions EXCEPT !.singleton = "true", !.insertInto = t] :
        t \in {Undefined, "#none"}}

SlotsNext ==
    \/ \E obj \in SlotObjs, options \in SlotChoices : AddStyle(obj, options)
    \/ \E h \in DOMAIN handles, newObj \in SlotObjs : UpdateStyle(h, newObj)
    \/ \E h \in DOMAIN handles : RemoveStyle(h)

SpecSlots == Init /\ [][SlotsNext]_vars

\* The grouping specification: installs only, over every list of GroupLists.
GroupNext == \E list \in GroupLists : Install(list, DefaultOptions)

SpecGroup == Init /\ [][GroupNext]_vars

\* ---------------------------------------------------------------- the id-keyed variant
\* The variant of the program whose registry is a plain object keyed by id,
\* stylesInDom: { [key: number]: StyleInDOM }.  cache[id] is empty or holds
\* the one entry of the id.
idKeyedGetNothing(w, id) == Null

\* stylesInDom[item.id]
idKeyedGet(w, id) == IF w.cache[id] = <<>> THEN Null ELSE w.cache[id][1][2]

\* stylesInDom[item.id] = domStyle
idKeyedSet(w, id, domStyle) == [w EXCEPT !.cache[id] = <<<<0, domStyle>>>>]

\* delete stylesInDom[domStyle.id]
idKeyedDelete(w, domStyle) == [w EXCEPT !.cache[w.domStyles[domStyle].id] = <<>>]

\* stylesInDom[item.id] = { id: item.id, refs: 1, parts: parts }
registerStyleIdKeyed(w, style) ==
    IF Failed(w) THEN w
    ELSE Event(idKeyedSet([w EXCEPT !.domStyles = Append(@,
                                [id |-> style.id, refs |-> 1, parts |-> w.parts])],
                          style.id, Len(w.domStyles) + 1),
               "set", Len(w.domStyles) + 1, style.ref)

\* One item of the loop of the variant's addStylesToDom.
addStyleToDomIdKeyed(w, style) ==
    IF idKeyedGet(w, style.id) # Null
    THEN refreshStyle(w, idKeyedGet(w, style.id), style)
    ELSE registerStyleIdKeyed(createParts([w EXCEPT !.parts = <<>>], style, 1), style)

RECURSIVE addStylesToDomIdKeyed(_, _, _)
addStylesToDomIdKeyed(w, styles, i) ==
    IF Failed(w) \/ i > Len(styles) THEN w
    ELSE addStylesToDomIdKeyed(addStyleToDomIdKeyed(w, styles[i]), styles, i + 1)

\* const styles = listToStyles(list); addStylesToDom(styles, options);
installIdKeyed(w, list) ==
    addStylesToDomIdKeyed([w EXCEPT !.styleCount = @ + Len(listToStyles(list, w.styleCount))],
                          listToStyles(list, w.styleCount), 1)

\* const domStyle = stylesInDom[item.id]; domStyle.refs--; mayRemove.push(domStyle);
RECURSIVE decrementLoopIdKeyed(_, _, _)
decrementLoopIdKeyed(w, styles, i) ==
    IF Failed(w) \/ i > Len(styles) THEN w
    ELSE decrementLoopIdKeyed(decrement(w, idKeyedGet(w, styles[i].id)), styles, i + 1)

installNewIdKeyed(w, given, newList) ==
    IF Failed(w) \/ ~given THEN w ELSE installIdKeyed(w, newList)

evictIdKeyed(w, domStyle) ==
    IF Failed(w) THEN w ELSE Event(idKeyedDelete(w, domStyle), "delete", domStyle, 0)

RECURSIVE removeLoopIdKeyed(_, _)
removeLoopIdKeyed(w, i) ==
    IF Failed(w) \/ i > Len(w.mayRemove) THEN w
    ELSE IF w.domStyles[w.mayRemove[i]].refs = 0
    THEN removeLoopIdKeyed(evictIdKeyed(removeParts(w, w.mayRemove[i], 1), w.mayRemove[i]),
                           i + 1)
    ELSE removeLoopIdKeyed(w, i + 1)

\* update(newList) of a closure of the variant.
updateIdKeyed(w, styles, given, newList) ==
    removeLoopIdKeyed(installNewIdKeyed(decrementLoopIdKeyed(w, styles, 1), given, newList), 1)

\* The variant on the page before the first call, with its closures.
IdKeyedStart ==
    [cache |-> [id \in Ids |-> <<>>], domStyles |-> <<>>, handles |-> <<>>,
     nodes |-> <<[NewNode("meta") EXCEPT !.parent = "head"],
                 [NewNode("div") EXCEPT !.parent = "#app"]>>,
     children |-> [t \in Targets |-> IF t = "head" THEN <<1>> ELSE <<2>>],
     styleElementsInsertedAtTop |-> <<>>, singletonElement |-> Null,
     singletonCounter |-> 0, textStore |-> <<>>, blobs |-> <<>>,
     memo |-> [s \in Selectors |-> Undefined], styleCount |-> 0,
     options |-> ResolveOptions(DefaultOptions), ret |-> Null, parts |-> <<>>,
     mayRemove |-> <<>>, log |-> <<>>, err |-> NoError, closures |-> <<>>]

\* The variant enters a call: the locals of the call are fresh.
IdKeyedEnter(v, options) ==
    [v EXCEPT !.options = options, !.ret = Null, !.parts = <<>>, !.mayRemove = <<>>,
              !.log = <<>>, !.err = NoError]

\* An install of the variant returns its closure unless it threw.  The
\* closures are numbered as the program numbers its own: an install the
\* program returned from (closure is its number) takes the next place, with
\* returned FALSE when the variant threw, and the closure of an install that
\* threw in the program is never called and takes no place.
IdKeyedInstalled(w, list, base, closure) ==
    IF closure = 0 THEN w
    ELSE [w EXCEPT !.closures = Append(@, [styles |-> listToStyles(list, base),
                                           options |-> w.options,
                                           returned |-> ~Failed(w)])]

\* The closure keeps the one options object of its install: what a call
\* wrote into options.attrs stays for the next call, also when the call threw.
IdKeyedUpdated(w, k) == [w EXCEPT !.closures[k].options = w.options]

\* The options object an install was given, resolved: the options of the
\* call without the type and rel the call wrote into attrs (every install
\* is given the attrs of DefaultOptions).
IdKeyedOptions(call) == [call.options EXCEPT !.attrs = DefaultOptions.attrs]

\* The variant makes the call the program made: the same kind, closure and
\* list.  A call on a closure the variant did not return cannot be made and
\* leaves the variant as it is.
IdKeyedCall(v, call) ==
    IF call.kind = "install"
    THEN IdKeyedInstalled(installIdKeyed(IdKeyedEnter(v, IdKeyedOptions(call)), call.list),
                          call.list, v.styleCount, call.closure)
    ELSE IF ~v.closures[call.closure].returned
    THEN Throw(IdKeyedEnter(v, v.closures[call.closure].options), "NoClosure")
    ELSE IdKeyedUpdated(updateIdKeyed(IdKeyedEnter(v, v.closures[call.closure].options),
                                      v.closures[call.closure].styles,
                                      call.kind = "update", call.list),
                        call.closure)

\* The variant after the first j calls of the history.
RECURSIVE IdKeyedAfter(_)
IdKeyedAfter(j) == IF j = 0 THEN IdKeyedStart ELSE IdKeyedCall(IdKeyedAfter(j - 1), history[j])

\* ---------------------------------------------------------------- reading the history
\* The references the events op of call j act on.
Ops(j, op) ==
    {history[j].log[i][2] : i \in {i \in DOMAIN history[j].log : history[j].log[i][1] = op}}
Created(j) == Ops(j, "createElement")
Detached(j) == Ops(j, "detach")
Decremented(j) == Ops(j, "refs--")
Incremented(j) == Ops(j, "refs++")
\* The entries call j registered: created, or found and refreshed.
Registered(j) == Ops(j, "set") \cup Ops(j, "refs++")
\* The positions in the log of call j of the events named in ops.
Positions(j, ops) == {i \in DOMAIN history[j].log : history[j].log[i][1] \in ops}
DomOps == {"createElement", "insert", "detach", "write", "href", "createObjectURL", "revoke"}

IsInvocation(j) == history[j].kind \in {"update", "teardown"}
\* The invocations of the k-th closure.
CallsOn(k) == {j \in DOMAIN history : IsInvocation(j) /\ history[j].closure = k}
\* The install that returned the k-th closure.
InstallOf(k) ==
    CHOOSE j \in DOMAIN history : history[j].kind = "install" /\ history[j].closure = k
\* The call before invocation j in the sequence of its closure.
PrevOn(j) ==
    CHOOSE i \in 1..(j - 1) :
        /\ history[i].closure = history[j].closure
        /\ \A m \in (i + 1)..(j - 1) : history[m].closure # history[j].closure

Attached(n) == nodes[n].parent # NoParent
IdsOf(list) == {list[i][1] : i \in DOMAIN list}
PartCount(list, id) == Cardinality({i \in DOMAIN list : list[i][1] = id})
Range(seq) == {seq[i] : i \in DOMAIN seq}
EntriesOfId(id) == {d \in DOMAIN domStyles : domStyles[d].id = id}
\* The elements behind the part handles of the entries of module id.
ElementsOfId(id) ==
    {handles[h].styleElement : h \in UNION {Range(domStyles[d].parts) : d \in EntriesOfId(id)}}
\* The entries the registry holds.
InCache(d) == \E id \in Ids : \E i \in DOMAIN cache[id] : cache[id][i][2] = d
RegistryEmpty == \A id \in Ids : cache[id] = <<>>

\* ---------------------------------------------------------------- claims
\* An update that directly follows the install of its closure.
FirstUpdate(j) == history[j].kind = "update" /\ history[PrevOn(j)].kind = "install"

\* C1: after install(L) and update(L') on the returned closure, a module id
\* of both lists with the same number of parts keeps the elements install
\* created: the update creates no element and detaches no element of it.
C1_UpdatedInPlace ==
    \A j \in DOMAIN history :
        FirstUpdate(j) =>
            \A id \in IdsOf(history[j].list) \cap IdsOf(history[PrevOn(j)].list) :
                PartCount(history[j].list, id) = PartCount(history[PrevOn(j)].list, id)
                    => (Created(j) \cup Detached(j)) \cap ElementsOfId(id) = {}

\* The run install([[id, css1]]), update([[id, css2]]), update().
SingleModuleRun ==
    /\ Len(history) = 3
    /\ history[1].kind = "install" /\ Len(history[1].list) = 1
    /\ history[2].kind = "update" /\ Len(history[2].list) = 1
    /\ history[2].list[1][1] = history[1].list[1][1]
    /\ history[3].kind = "teardown"

\* C2: after install([[id, css1]]), update([[id, css2]]) and update() the
\* registry holds no entry and no element created for the id is attached
\* (the shared element of singleton mode apart, which is never detached).
C2_TornDown ==
    SingleModuleRun =>
        /\ RegistryEmpty
        /\ \A n \in ElementsOfId(history[1].list[1][1]) :
               n = singletonElement \/ ~Attached(n)

\* C3: every invocation of an update closure decrements refs of exactly the
\* entries the call before it in the closure's sequence registered.
C3_DecrementsPrevious ==
    \A j \in DOMAIN history :
        IsInvocation(j) => Decremented(j) = Registered(PrevOn(j))

\* C4: an update with the list of the install before it touches no element
\* (creates, inserts, detaches, writes nothing) and still decrements and
\* increments refs of the entries of the list.
C4_IdenticalUpdateQuiet ==
    \A j \in DOMAIN history :
        (FirstUpdate(j) /\ history[j].list = history[PrevOn(j)].list
                        /\ history[j].list # <<>>) =>
            /\ Positions(j, DomOps) = {}
            /\ Decremented(j) = Registered(PrevOn(j))
            /\ Incremented(j) = Registered(PrevOn(j))

\* n installs, then update() on each of the n closures in the order of the
\* installs, the lists of the installs naming the same module ids.
TeardownsInOrder ==
    /\ Len(closures) >= 1
    /\ Len(history) = 2 * Len(closures)
    /\ \A i \in DOMAIN closures :
          /\ history[i].kind = "install"
          /\ IdsOf(history[i].list) = IdsOf(history[1].list)
          /\ history[Len(closures) + i].kind = "teardown"
          /\ history[Len(closures) + i].closure = i

\* C5: in inline and blob-link modes, after n installs naming the same ids
\* and update() on each closure in the same order, every element an install
\* created is detached (and no teardown raised an error).
C5_AllDetached ==
    (TeardownsInOrder /\ ~env.oldIE) =>
        \A i \in DOMAIN closures :
            /\ history[Len(closures) + i].err = NoError
            /\ \A n \in Created(i) : ~Attached(n)

\* Two installs of a shared id, one with a source map part, both torn down.
C5_Witness ==
    /\ TeardownsInOrder /\ ~env.oldIE
    /\ Len(closures) = 2
    /\ IdsOf(history[1].list) = {1, 2}
    /\ \E n \in Created(1) : nodes[n].tag = "link" /\ ~Attached(n)
    /\ \E n \in Created(2) : nodes[n].tag = "style" /\ ~Attached(n)

\* C6: after n installs naming the same ids and update() on each closure in
\* the same order, the registry holds no entry.
C6_RegistryEmpty == TeardownsInOrder => RegistryEmpty

\* Two installs whose lists share a module id, each closure invoked at most once.
TwoConsumers ==
    /\ Len(closures) = 2
    /\ IdsOf(history[InstallOf(1)].list) \cap IdsOf(history[InstallOf(2)].list) # {}
    /\ \A k \in DOMAIN closures : Cardinality(CallsOn(k)) <= 1
\* No element of an install whose closure was not invoked yet is detached.
UninvokedKept ==
    \A k \in DOMAIN closures :
        CallsOn(k) = {} => \A n \in Created(InstallOf(k)) : Attached(n)
BothTornDown ==
    \A k \in DOMAIN closures : \E j \in CallsOn(k) : history[j].kind = "teardown"
NoElementLeft ==
    \A k \in DOMAIN closures : \A n \in Created(InstallOf(k)) : ~Attached(n)

\* C7 as stated: under every interleaving the elements of an install not yet
\* invoked stay attached, and once both closures were invoked with no
\* argument no element of either install is attached, in every mode.
C7_AsStated ==
    TwoConsumers => /\ UninvokedKept
                    /\ BothTornDown => NoElementLeft

\* C7: the same, the second half for inline and blob-link modes only (the
\* shared element of singleton mode is never detached).
C7_Interleavings ==
    TwoConsumers => /\ UninvokedKept
                    /\ (BothTornDown /\ ~env.oldIE) => NoElementLeft

\* The second consumer torn down first, then the first; links and styles gone.
C7_Witness ==
    /\ TwoConsumers /\ BothTornDown /\ ~env.oldIE
    /\ Len(history) = 4
    /\ history[3].closure = 2 /\ history[4].closure = 1
    /\ \E n \in Created(InstallOf(1)) : nodes[n].tag = "link"
    /\ Created(InstallOf(2)) # {}
    /\ NoElementLeft

\* Two installs sharing a module id open the history.
TwoInstalls ==
    /\ Len(history) >= 2
    /\ history[1].kind = "install" /\ history[2].kind = "install"

\* C8: of two installs naming the same module id the second creates no
\* element for the id and raises refs of the entry from 1 to 2, and an
\* element of the id is detached only after both closures were invoked.
C8_Deduplicated ==
    TwoInstalls =>
        \A id \in IdsOf(history[1].list) \cap IdsOf(history[2].list) :
            /\ Created(2) \cap ElementsOfId(id) = {}
            /\ Len(history) = 2 => \E d \in EntriesOfId(id) : domStyles[d].refs = 2
            /\ (\E n \in ElementsOfId(id) : ~Attached(n))
                   => \A k \in DOMAIN closures : CallsOn(k) # {}

\* The last call, when it is an update(newList) that returned.
LastIsUpdate ==
    /\ history # <<>>
    /\ history[Len(history)].kind = "update"
    /\ history[Len(history)].err = NoError

\* C9: within update(newList) all refs decrements come first, then the
\* elements and entries of newList, then the removals; and an entry the call
\* decremented is handed to removal and is out of the registry afterwards
\* exactly when its refs is 0 once newList is installed.
C9_StagedRemoval ==
    LastIsUpdate =>
        /\ \A p \in Positions(Len(history), {"refs--"}) :
           \A q \in Positions(Len(history), {"createElement", "insert", "set", "refs++"}) :
               p < q
        /\ \A q \in Positions(Len(history), {"createElement", "insert", "set", "refs++"}) :
           \A r \in Positions(Len(history), {"detach", "delete"}) :
               q < r
        /\ \A d \in Decremented(Len(history)) :
               /\ domStyles[d].refs = 0 <=> d \in Ops(Len(history), "delete")
               /\ domStyles[d].refs = 0 <=> ~InCache(d)

\* The position of the first tuple of list that carries id.
FirstIndex(list, id) == CHOOSE i \in DOMAIN list : list[i][1] = id /\ \A m \in 1..(i - 1) : list[m][1] # id
\* The tuples of list that carry id, as parts, in input order.
TuplesOf(list, id) == SelectSeq(list, LAMBDA item : item[1] = id)
PartsOfId(list, id) ==
    [i \in DOMAIN TuplesOf(list, id) |->
        Part(TuplesOf(list, id)[i][2], TuplesOf(list, id)[i][3], TuplesOf(list, id)[i][4])]
Grouped(list, styles) ==
    /\ Len(styles) = Cardinality(IdsOf(list))
    /\ {styles[a].id : a \in DOMAIN styles} = IdsOf(list)
    /\ \A a, b \in DOMAIN styles :
           a < b => FirstIndex(list, styles[a].id) < FirstIndex(list, styles[b].id)
    /\ \A a \in DOMAIN styles : styles[a].parts = PartsOfId(list, styles[a].id)

\* C10: for every list, listToStyles returns one descriptor per distinct id,
\* in the order in which the ids first occur, the parts of each descriptor
\* being the tuples of the list with its id in input order.
C10_Grouping ==
    \A k \in DOMAIN closures : Grouped(history[InstallOf(k)].list, closures[k].styles)

\* A list whose first id comes back after another id: <<1, 2, 1>>.
C10_Witness ==
    \E k \in DOMAIN closures :
        /\ Len(history[InstallOf(k)].list) = 3
        /\ history[InstallOf(k)].list[1][1] = history[InstallOf(k)].list[3][1]
        /\ history[InstallOf(k)].list[1][1] # history[InstallOf(k)].list[2][1]
        /\ history[InstallOf(k)].list[1] # history[InstallOf(k)].list[3]
        /\ Len(closures[k].styles) = 2
        /\ Len(closures[k].styles[1].parts) = 2

\* ---------------------------------------------------------------- insertion
\* The children a target has before the first call.
InitialChildren(t) ==
    IF t = "head" THEN <<1>>
    ELSE IF Len(nodes) >= 2 /\ nodes[2].tag = "div" THEN <<2>>
    ELSE <<>>
\* The elements inserted by calls whose options say insertAt "top".  Elements
\* are numbered as they are created and each is inserted once, right after
\* its creation, so a smaller number is an earlier insertion.
TopElements ==
    UNION {Ops(j, "insert") : j \in {i \in DOMAIN history : history[i].options.insertAt = "top"}}
\* A was inserted at the top of t, then B, and t got nothing else.
TwoAtTop(t, A, B) ==
    /\ A \in TopElements /\ B \in TopElements /\ A < B
    /\ Len(children[t]) = 2 + Len(InitialChildren(t))
    /\ {A, B} \subseteq Range(children[t])

\* C11 as stated: after A and then B were inserted at the top of a target,
\* its children are B, A, then the children it had before.
C11_AsStated ==
    \A t \in Targets : \A A, B \in DOMAIN nodes :
        TwoAtTop(t, A, B) => children[t] = <<B, A>> \o InitialChildren(t)

\* The call that inserted element n, and the target it inserted into.
InsertCall(n) == CHOOSE j \in DOMAIN history : n \in Ops(j, "insert")
TargetOf(n) == history[InsertCall(n)].options.insertInto
\* m was detached before n was inserted: by an earlier call, or by the call
\* inserting n at an earlier place of its log (an update adds its new list
\* before it removes the entries it held).
DetachedBefore(m, n) ==
    LET call == InsertCall(n)
        log == history[call].log
        place == CHOOSE q \in DOMAIN log : log[q][1] = "insert" /\ log[q][2] = n
    IN  \/ \E i \in 1..(call - 1) : m \in Detached(i)
        \/ \E p \in 1..(place - 1) : log[p][1] = "detach" /\ log[p][2] = m
\* The top-inserted elements still in the document when n is inserted: those
\* inserted before it and not detached before.
TopListBefore(n) ==
    {m \in TopElements : m < n /\ ~DetachedBefore(m, n)}
\* When n is inserted no top-inserted element is left in the document, or the
\* most recent of them is in the target n goes into.
AfterOwnTarget(n) ==
    LET list == TopListBefore(n)
    IN  \/ list = {}
        \/ \E m \in list :
              /\ \A o \in list : o <= m
              /\ TargetOf(m) = TargetOf(n)
\* n was inserted before the first child of its target, or right after an
\* element of its target of which the same is true: when n is inserted no
\* top-inserted element is left in the document, or the most recent of them
\* is in the target n goes into and is itself in such a chain.
RECURSIVE InOwnChain(_)
InOwnChain(n) ==
    LET list == TopListBefore(n)
    IN  \/ list = {}
        \/ \E m \in list :
              /\ \A o \in list : o <= m
              /\ TargetOf(m) = TargetOf(n)
              /\ InOwnChain(m)

\* C11 with B right after A and the condition on the most recent
\* top-inserted element only: not enough, since that element may itself have
\* been appended behind the children of the target.
C11_LastInTarget ==
    \A t \in Targets : \A A, B \in DOMAIN nodes :
        (TwoAtTop(t, A, B) /\ AfterOwnTarget(A) /\ AfterOwnTarget(B))
            => children[t] = <<A, B>> \o InitialChildren(t)

\* C11: after A and then B were inserted at the top of a target, each before
\* the first child of the target or right after a top-inserted element of
\* the target placed in the same way, its children are A, B, then the
\* children it had before: B goes right after A.
C11_TopOrder ==
    \A t \in Targets : \A A, B \in DOMAIN nodes :
        (TwoAtTop(t, A, B) /\ InOwnChain(A) /\ InOwnChain(B))
            => children[t] = <<A, B>> \o InitialChildren(t)

\* Two elements at the top of #app, put there by two installs.
C11_Witness ==
    /\ Len(history) = 2
    /\ \E A, B \in DOMAIN nodes :
          /\ TwoAtTop("#app", A, B)
          /\ InOwnChain(A) /\ InOwnChain(B)
          /\ A \in Created(1) /\ B \in Created(2)

\* ---------------------------------------------------------------- errors
\* C12: an install whose insertInto resolves to no node, or whose insertAt is
\* neither "top" nor "bottom", raises an error and returns no closure,
\* whatever the list and the other options are.
C12_FailsFast ==
    \A j \in DOMAIN history :
        (/\ history[j].kind = "install"
         /\ \/ history[j].options.insertInto \notin Targets
            \/ history[j].options.insertAt \notin {"top", "bottom"})
            => history[j].err # NoError /\ history[j].closure = 0

\* ---------------------------------------------------------------- singleton
\* The handles of singleton mode, in the order of their slot indices.
RECURSIVE SingletonHandles(_)
SingletonHandles(h) ==
    IF h = 0 THEN <<>>
    ELSE IF handles[h].mode = "singleton" THEN Append(SingletonHandles(h - 1), h)
    ELSE SingletonHandles(h - 1)
\* The entry that holds handle h was handed to removal by some call.
Removed(h) ==
    \E d \in DOMAIN domStyles :
        /\ h \in Range(domStyles[d].parts)
        /\ \E j \in DOMAIN history : d \in Ops(j, "delete")
\* The css of the singleton parts that were not removed, by slot index.
LiveSingletonCss ==
    [i \in DOMAIN SelectSeq(SingletonHandles(Len(handles)), LAMBDA h : ~Removed(h)) |->
        handles[SelectSeq(SingletonHandles(Len(handles)), LAMBDA h : ~Removed(h))[i]].obj.css]
\* What the shared element shows: the text of its styleSheet, or its text
\* nodes that are not empty.
Rendered(n) ==
    IF env.styleSheet THEN nodes[n].cssText
    ELSE JoinNonEmpty(nodes[n].childNodes, 1, "")

\* C13: in singleton mode the shared element shows the css of the parts that
\* were not removed, in the order of their slot indices, and nothing else.
C13_SingletonContent ==
    singletonElement # Null =>
        Rendered(singletonElement) = JoinNonEmpty(LiveSingletonCss, 1, "")

\* ---------------------------------------------------------------- blob links
\* The blob-link parts that were created and not removed.
LiveLinks == {h \in DOMAIN handles : handles[h].mode = "link" /\ ~PartRemoved(h)}
\* The calls made on part h: the addStyle that returned it and its invocations.
PartCalls(h) == {j \in DOMAIN history : history[j].handle = h}
\* The object URLs created for part h.
UrlsOf(h) == UNION {Ops(j, "createObjectURL") : j \in PartCalls(h)}

\* C14: in every call a URL is revoked only after the href of the link was
\* set to another URL, and the href of a live blob-link part is never empty
\* and never a revoked URL.
C14_NoGap ==
    /\ \A h \in LiveLinks :
           /\ nodes[handles[h].styleElement].href # Null
           /\ blobs[nodes[handles[h].styleElement].href].revoked = 0
    /\ \A j \in DOMAIN history :
           history[j].kind \in {"addStyle", "updateStyle"} =>
               \A p \in Positions(j, {"revoke"}) :
                   \E q \in Positions(j, {"href"}) :
                       q < p /\ history[j].log[q][3] # history[j].log[p][2]

\* A blob-link part updated twice, so that two of its URLs were replaced.
C14_Witness ==
    \E h \in LiveLinks :
        /\ Cardinality(UrlsOf(h)) = 3
        /\ Cardinality({j \in PartCalls(h) : Positions(j, {"revoke"}) # {}}) = 2

\* C15: every URL created for a removed blob-link part is revoked, exactly
\* once; of the URLs of a live part exactly one is not revoked, the href of
\* its link, and the others are revoked exactly once.
C15_UrlsRevoked ==
    \A h \in DOMAIN handles :
        handles[h].mode = "link" =>
            \A u \in UrlsOf(h) :
                blobs[u].revoked =
                    IF h \in LiveLinks /\ u = nodes[handles[h].styleElement].href
                    THEN 0 ELSE 1

\* A blob-link part updated and then removed, beside a live one.
C15_Witness ==
    /\ \E h \in DOMAIN handles :
          /\ handles[h].mode = "link" /\ PartRemoved(h)
          /\ Cardinality(UrlsOf(h)) = 2
    /\ LiveLinks # {}

\* ---------------------------------------------------------------- the top list
\* The last call is an install with insertAt "top" into a target that resolves.
LastIsTopInstall ==
    /\ history # <<>>
    /\ history[Len(history)].kind = "install"
    /\ history[Len(history)].options.insertAt = "top"
    /\ history[Len(history)].options.insertInto \in Targets
\* n is the child of its parent that comes right after m.
RightAfter(m, n) ==
    /\ nodes[m].parent = nodes[n].parent /\ Attached(n)
    /\ IndexOf(children[nodes[n].parent], n, 1)
           = IndexOf(children[nodes[n].parent], m, 1) + 1
\* Element n, at place i of the top list, is right after the element before
\* it in the list, or is the first child of its target when it opens the list.
PlacedAfterLast(n, i) ==
    /\ i >= 1
    /\ IF i = 1
       THEN Attached(n) /\ children[nodes[n].parent][1] = n
       ELSE RightAfter(styleElementsInsertedAtTop[i - 1], n)

\* C16: with insertAt "top" every new element is put right after the most
\* recent element of the top list (first in its target when the list is
\* empty) and joins the list.
C16_AfterLastTop ==
    LastIsTopInstall =>
        \A n \in Created(Len(history)) :
            PlacedAfterLast(n, IndexOf(styleElementsInsertedAtTop, n, 1))

\* C17: the top list holds, once each and in the order of their insertion,
\* the elements inserted with insertAt "top" that are attached.
C17_TopList ==
    /\ \A i, j \in DOMAIN styleElementsInsertedAtTop :
           i < j => styleElementsInsertedAtTop[i] < styleElementsInsertedAtTop[j]
    /\ Range(styleElementsInsertedAtTop) = {n \in TopElements : Attached(n)}

\* Of three elements inserted at the top the first was removed again.
C17_Witness ==
    /\ Len(styleElementsInsertedAtTop) = 2
    /\ \E n \in TopElements :
          ~Attached(n) /\ \A i \in DOMAIN styleElementsInsertedAtTop :
                               n < styleElementsInsertedAtTop[i]

\* ---------------------------------------------------------------- the registry
\* Entry d was handed to stylesInDom.delete by some call.
Evicted(d) == \E j \in DOMAIN history : d \in Ops(j, "delete")

\* C18: evict removes exactly the entry it is given: an entry is in the
\* registry if and only if it was registered and never evicted, so an evicted
\* entry is no longer found and every other entry still is.
C18_EvictExact == \A d \in DOMAIN domStyles : InCache(d) <=> ~Evicted(d)

\* C19: refs of every entry ever created is never negative.
C19_RefsNonNegative == \A d \in DOMAIN domStyles : domStyles[d].refs >= 0

\* The pairs <<descriptor, entry>> stylesInDom.set was called with.
SetPairs ==
    UNION {{<<history[j].log[i][3], history[j].log[i][2]>> : i \in Positions(j, {"set"})}
               : j \in DOMAIN history}
\* stylesInDom.get of the descriptor object r, read with id.
Lookup(r, id) == stylesInDomGet(World(ResolveOptions(DefaultOptions)), [ref |-> r, id |-> id])

\* C20: lookup of a descriptor returns an entry only if that very descriptor
\* was registered with it, never the entry of another descriptor of the same
\* id; and a registered descriptor whose entry the registry holds finds it.
C20_ByIdentity ==
    /\ \A r \in 1..styleCount, id \in Ids :
           Lookup(r, id) # Null =>
               <<r, Lookup(r, id)>> \in SetPairs /\ domStyles[Lookup(r, id)].id = id
    /\ \A pair \in SetPairs :
           InCache(pair[2]) => Lookup(pair[1], domStyles[pair[2]].id) = pair[2]

\* Two descriptors of one id, each finding its own entry.
C20_Witness ==
    \E p, q \in SetPairs :
        /\ p[1] # q[1] /\ p[2] # q[2]
        /\ domStyles[p[2]].id = domStyles[q[2]].id
        /\ Lookup(p[1], domStyles[p[2]].id) = p[2]
        /\ Lookup(q[1], domStyles[q[2]].id) = q[2]

\* ---------------------------------------------------------------- the two registries
\* What a page shows of an element: its tag and its css, read where the
\* element keeps it (the sheet of a link is the content of its object URL).
Shown(w, n) ==
    <<w.nodes[n].tag,
      IF w.nodes[n].tag = "link"
      THEN IF w.nodes[n].href = Null THEN "" ELSE w.blobs[w.nodes[n].href].css
      ELSE IF env.styleSheet THEN w.nodes[n].cssText
      ELSE JoinNonEmpty(w.nodes[n].childNodes, 1, "")>>
\* The elements attached to each target, in document order.
ObservedDocument(w) ==
    [t \in Targets |-> [i \in DOMAIN w.children[t] |-> Shown(w, w.children[t][i])]]
\* The refs of the entries the registry holds for each id.
ObservedRefs(w) ==
    [id \in Ids |-> {w.domStyles[w.cache[id][i][2]].refs : i \in DOMAIN w.cache[id]}]
Observed(w) == <<ObservedDocument(w), ObservedRefs(w)>>

\* Two installs whose lists share an id, and nothing else.
SharedIdInstalls ==
    /\ Len(history) = 2
    /\ history[1].kind = "install" /\ history[2].kind = "install"
    /\ IdsOf(history[1].list) \cap IdsOf(history[2].list) # {}

\* C21: the identity-keyed registry and the id-keyed map are not
\* observationally equivalent: after two installs whose lists share an id the
\* two variants differ in the elements attached to the document or in the refs
\* of the entries of the registry.
C21_VariantsDiffer ==
    SharedIdInstalls =>
        Observed(World(ResolveOptions(DefaultOptions))) # Observed(IdKeyedAfter(Len(history)))

\* Two installs of one id where each style has its own element: the program
\* attaches two elements with refs 1 each, the variant one element with refs 2.
C21_Witness ==
    /\ SharedIdInstalls
    /\ ~env.oldIE
    /\ \E id \in Ids :
           /\ ObservedRefs(World(ResolveOptions(DefaultOptions)))[id] = {1}
           /\ ObservedRefs(IdKeyedAfter(2))[id] = {2}
    /\ Len(children["head"]) > Len(IdKeyedAfter(2).children["head"])

\* ---------------------------------------------------------------- the closure
\* One module run: every invocation is on the closure of the only install.
OneClosure == NumCalls({"install"}) = 1

\* C28: in a sequence of calls on one returned closure, any mix of
\* update(newList) and update(), every call completes without an error.
C28_NoError == OneClosure => \A j \in DOMAIN history : history[j].err = NoError

\* The part handles of the entries of S.
HandlesOf(S) == UNION {Range(domStyles[d].parts) : d \in S}
\* The number of times call j wrote css: into a style element or, as the
\* object URL of a new sheet, into a link.
Writes(j) == Cardinality(Positions(j, {"write", "href"}))

\* The refresh branch of addStylesToDom is never taken.  No call raises the
\* refs of an entry; an install or update(newList) that returns registers one
\* new entry for each id of its list; refs of no entry exceeds 1; and css is
\* written only when a part is created or (in singleton mode, where removal
\* blanks the slot) removed, never to give a part handle a new part.
NoRefresh ==
    /\ \A j \in DOMAIN history :
           /\ Incremented(j) = {}
           /\ (history[j].kind \in {"install", "update"} /\ history[j].err = NoError)
                  => Cardinality(Ops(j, "set")) = Cardinality(IdsOf(history[j].list))
           /\ Writes(j) = Cardinality(HandlesOf(Ops(j, "set")))
                          + Cardinality({h \in HandlesOf(Ops(j, "delete")) :
                                            handles[h].mode = "singleton"})
    /\ \A d \in DOMAIN domStyles : domStyles[d].refs <= 1
    /\ \A d, e \in DOMAIN domStyles : d # e => HandlesOf({d}) \cap HandlesOf({e}) = {}

\* The parts of the entries call j registered, of the strategies in modes,
\* have elements of their own that call j created.
NewElements(j, modes) ==
    /\ \A h \in HandlesOf(Ops(j, "set")) :
           handles[h].mode \in modes => handles[h].styleElement \in Created(j)
    /\ \A g, h \in HandlesOf(Ops(j, "set")) :
           (g # h /\ handles[g].mode \in modes /\ handles[h].mode \in modes)
               => handles[g].styleElement # handles[h].styleElement

\* C29 as stated: the refresh branch is never taken, and every registration
\* creates a new entry with refs 1 and new elements, whatever the strategy of
\* its parts.
C29_AsStated ==
    /\ NoRefresh
    /\ \A j \in DOMAIN history : NewElements(j, {"singleton", "link", "inline"})

\* C29: the refresh branch is never taken: every registration creates a new
\* entry with refs 1, refs of no entry exceeds 1 and no part handle is given
\* a new part after its creation.  A registered part of the inline or the
\* blob-link strategy has a new element of its own; a part of singleton mode
\* has the shared element, which is created once.
C29_NoRefresh ==
    /\ NoRefresh
    /\ \A j \in DOMAIN history : NewElements(j, {"link", "inline"})
    /\ \A h \in DOMAIN handles :
           handles[h].mode = "singleton" => handles[h].styleElement = singletonElement

\* update(newList) naming the id the install named, where parts are not
\* singleton: the update registered a second entry of the id whose part has
\* an element the update created.
C29_Witness ==
    /\ LastIsUpdate /\ ~env.oldIE
    /\ history[1].kind = "install"
    /\ \E id \in IdsOf(history[1].list) \cap IdsOf(history[Len(history)].list) :
           \E d \in Ops(Len(history), "set") :
               /\ domStyles[d].id = id /\ domStyles[d].refs = 1
               /\ Cardinality(EntriesOfId(id)) = 2
               /\ HandlesOf({d}) # {}
               /\ \A h \in HandlesOf({d}) :
                      handles[h].styleElement \in Created(Len(history))

\* ---------------------------------------------------------------- slot indices
\* C23: in singleton mode a part gets at creation a slot index greater than
\* every index handed out before, so no two parts share a slot index, also
\* when the part that owned the smaller index was removed; and every index
\* handed out is below the counter.
C23_SlotsIncrease ==
    \A g, h \in DOMAIN handles :
        (handles[g].mode = "singleton" /\ handles[h].mode = "singleton") =>
            /\ g < h => handles[g].styleIndex < handles[h].styleIndex
            /\ handles[h].styleIndex < singletonCounter

\* A singleton part is created after the singleton part of an earlier
\* install was removed, and gets a greater slot index.
C23_Witness ==
    /\ Len(history) = 3
    /\ history[1].kind = "install" /\ history[2].kind = "teardown"
    /\ history[3].kind = "install" /\ history[3].err = NoError
    /\ \E g, h \in DOMAIN handles :
           /\ g < h /\ Removed(g) /\ ~Removed(h)
           /\ handles[g].mode = "singleton" /\ handles[h].mode = "singleton"
           /\ handles[g].styleIndex < handles[h].styleIndex

\* ---------------------------------------------------------------- the shared element
\* The calls made with options.singleton true (given, or resolved from the
\* environment when it was left unset).
SingletonCalls == {j \in DOMAIN history : history[j].options.singleton}
\* The elements the calls of S inserted into the document.
InsertedBy(S) == UNION {Ops(j, "insert") : j \in S}

\* C24: with options.singleton true, across installs and teardowns that
\* differ in insertInto and insertAt, at most one style element is created
\* and inserted, the shared element; every part of singleton mode writes
\* into it, and it is never detached.
C24_OneElement ==
    /\ Cardinality(InsertedBy(SingletonCalls)) <= 1
    /\ InsertedBy(SingletonCalls) \subseteq {singletonElement}
    /\ \A j \in SingletonCalls :
           /\ Ops(j, "write") \subseteq {singletonElement}
           /\ Detached(j) = {}
    /\ \A h \in DOMAIN handles :
           handles[h].mode = "singleton" => handles[h].styleElement = singletonElement
    /\ singletonElement # Null =>
           nodes[singletonElement].tag = "style" /\ Attached(singletonElement)

\* Two installs in singleton mode into different targets, and a teardown:
\* the parts of both share the element of the first, which is attached.
C24_Witness ==
    /\ Len(history) = 3 /\ SingletonCalls = {1, 2, 3}
    /\ history[1].kind = "install" /\ history[2].kind = "install"
    /\ history[3].kind = "teardown"
    /\ \A j \in 1..3 : history[j].err = NoError
    /\ history[1].options.insertInto # history[2].options.insertInto
    /\ Len(history[1].list) > 0 /\ Len(history[2].list) > 0
    /\ Cardinality(InsertedBy({1, 2})) = 1
    /\ Attached(singletonElement)

\* ---------------------------------------------------------------- the same part again
\* The part last applied through handle h: the part of the last call on it.
LastApplied(h) ==
    history[CHOOSE j \in PartCalls(h) : \A i \in PartCalls(h) : i <= j].obj

\* C25: a part handle invoked with a part whose css, media and sourceMap
\* equal those of the part last applied through it does nothing: the call
\* has no event, and the elements, the targets' children, the text of the
\* slots and the object URLs are what they were before the call.
C25_SamePartQuiet ==
    [][(/\ Len(history') = Len(history) + 1
        /\ history'[Len(history')].kind = "updateStyle"
        /\ history'[Len(history')].obj = LastApplied(history'[Len(history')].handle))
           => /\ history'[Len(history')].log = <<>>
              /\ history'[Len(history')].err = NoError
              /\ nodes' = nodes /\ children' = children /\ textStore' = textStore
              /\ blobs' = blobs /\ handles' = handles]_vars

\* A blob-link part given the part of its creation again: the call has no
\* event and the link keeps the one object URL created for it.
C25_Witness ==
    /\ Len(history) = 2
    /\ history[1].kind = "addStyle" /\ history[2].kind = "updateStyle"
    /\ history[2].obj = history[1].obj
    /\ handles[1].mode = "link"
    /\ history[2].log = <<>>
    /\ Len(blobs) = 1 /\ blobs[1].revoked = 0
    /\ nodes[handles[1].styleElement].href = 1

\* ---------------------------------------------------------------- strategies
\* The addStyle call that returned part handle h.
CreationOf(h) ==
    CHOOSE j \in DOMAIN history : history[j].kind = "addStyle" /\ history[j].handle = h
\* The operations the calls on a handle of each strategy perform.
OpsOfMode(mode) ==
    CASE mode = "singleton" -> {"createElement", "insert", "write"}
      [] mode = "link" -> {"createElement", "insert", "createObjectURL", "href",
                           "revoke", "detach"}
      [] mode = "inline" -> {"createElement", "insert", "write", "detach"}

\* C22: the strategy of a part handle is the one its creation chose, singleton
\* if options.singleton is true, otherwise blob link if the creating part has
\* a source map and the environment has object URLs, otherwise inline; and
\* every later call on the handle acts by that strategy on the element of the
\* handle, whatever part it is given.
C22_StrategyFixed ==
    \A h \in DOMAIN handles :
        /\ handles[h].mode =
               (IF history[CreationOf(h)].options.singleton THEN "singleton"
                ELSE IF Truthy(history[CreationOf(h)].obj.sourceMap) /\ env.blob
                THEN "link" ELSE "inline")
        /\ nodes[handles[h].styleElement].tag =
               (IF handles[h].mode = "link" THEN "link" ELSE "style")
        /\ \A j \in PartCalls(h) :
               \A i \in DOMAIN history[j].log :
                   /\ history[j].log[i][1] \in OpsOfMode(handles[h].mode)
                   /\ history[j].log[i][1] \in {"write", "href", "detach", "insert"}
                          => history[j].log[i][2] = handles[h].styleElement

\* Where the environment has no object URLs, a part with a source map
\* created with singleton false is inline: its css is in a style element, no
\* object URL is created, and the next part it is given is written into the
\* same element.
C22_Witness ==
    /\ Len(history) = 2 /\ ~env.blob
    /\ history[1].kind = "addStyle" /\ Truthy(history[1].obj.sourceMap)
    /\ ~history[1].options.singleton
    /\ history[2].kind = "updateStyle" /\ history[2].handle = 1
    /\ handles[1].mode = "inline" /\ nodes[handles[1].styleElement].tag = "style"
    /\ Ops(2, "write") = {handles[1].styleElement}
    /\ blobs = <<>>

\* ---------------------------------------------------------------- the URL fixer
\* The sheet of a blob link made of css for part obj: the css, and the source
\* map of the part as a comment when it has one.
SheetOf(css, obj) ==
    IF Truthy(obj.sourceMap)
    THEN css \o "\n/*# sourceMappingURL=data:application/json;base64,"
             \o Base64(obj.sourceMap) \o " */"
    ELSE css
\* The value of convertToAbsoluteUrls part handle h was created with.
ConvertOf(h) == history[CreationOf(h)].options.convertToAbsoluteUrls

\* C26: in blob-link mode the sheet of an update is made of the css passed
\* through the URL fixer exactly when convertToAbsoluteUrls is true, or is
\* unset and the part applied has a source map; otherwise, and always when
\* convertToAbsoluteUrls is false, it is made of the css as given.
C26_FixerWhen ==
    \A h \in DOMAIN handles :
        handles[h].mode = "link" =>
            \A j \in PartCalls(h) : \A u \in Ops(j, "createObjectURL") :
                blobs[u].css =
                    SheetOf(IF \/ ConvertOf(h) = "true"
                               \/ ConvertOf(h) = Undefined /\ Truthy(history[j].obj.sourceMap)
                            THEN fixUrls(history[j].obj.css)
                            ELSE history[j].obj.css,
                            history[j].obj)

\* A blob link created with convertToAbsoluteUrls unset is given a part
\* without a source map: the sheet of the creation is rewritten, the sheet
\* of the update is not.
C26_Witness ==
    /\ Len(history) = 2
    /\ history[1].kind = "addStyle" /\ history[2].kind = "updateStyle"
    /\ handles[1].mode = "link" /\ ConvertOf(1) = Undefined
    /\ history[2].obj.sourceMap = Undefined
    /\ Len(blobs) = 2
    /\ blobs[1].css = SheetOf(fixUrls(history[1].obj.css), history[1].obj)
    /\ blobs[2].css = history[2].obj.css

\* The parts created with convertToAbsoluteUrls true and not removed.
LiveConverting == {h \in DOMAIN handles : ConvertOf(h) = "true" /\ ~PartRemoved(h)}
\* The document shows css for part h: as the sheet of its link, as the text
\* of its style element, or as the text of its slot of the shared element.
ShowsFor(h, css) ==
    CASE handles[h].mode = "link" ->
           blobs[nodes[handles[h].styleElement].href].css = SheetOf(css, handles[h].obj)
      [] handles[h].mode = "inline" -> Rendered(handles[h].styleElement) = css
      [] handles[h].mode = "singleton" ->
           IF env.styleSheet THEN textStore[handles[h].styleIndex + 1] = css
           ELSE css \in Range(nodes[handles[h].styleElement].childNodes)

\* C27 as stated: with convertToAbsoluteUrls true the css the document shows
\* for a part is the css passed through the URL fixer, whichever strategy
\* the part uses.
C27_AsStated == \A h \in LiveConverting : ShowsFor(h, fixUrls(handles[h].obj.css))

\* C27: with convertToAbsoluteUrls true the css of a blob-link part is passed
\* through the URL fixer; the css of a singleton part and of an inline part
\* is written to the document as given.
C27_FixerInLinksOnly ==
    \A h \in LiveConverting :
        ShowsFor(h, IF handles[h].mode = "link" THEN fixUrls(handles[h].obj.css)
                    ELSE handles[h].obj.css)

\* An inline part and a blob-link part, both created with
\* convertToAbsoluteUrls true: the style element holds the css as given, the
\* sheet of the link the rewritten css.
C27_Witness ==
    \E g, h \in LiveConverting :
        /\ handles[g].mode = "inline" /\ handles[h].mode = "link"
        /\ Rendered(handles[g].styleElement) = handles[g].obj.css
        /\ blobs[nodes[handles[h].styleElement].href].css
               = SheetOf(fixUrls(handles[h].obj.css), handles[h].obj)

\* ---------------------------------------------------------------- slots of the shared element
\* The css of the singleton parts that were created and not removed, in the
\* order of their slot indices.
LiveSlotCss ==
    [i \in DOMAIN SelectSeq(SingletonHandles(Len(handles)), LAMBDA h : ~PartRemoved(h)) |->
        handles[SelectSeq(SingletonHandles(Len(handles)), LAMBDA h : ~PartRemoved(h))[i]].obj.css]
\* The text nodes of the shared element that are not empty.
SlotTexts == SelectSeq(nodes[singletonElement].childNodes, LAMBDA t : t # "")

\* C30: in singleton mode on the child-node path, also after calls of
\* addStyle that threw because the target is unresolved, a handle invoked to
\* update or remove its part changes only the css of that part: when the
\* shared element held the css of the live parts in slot order before the
\* call, it holds the css of the live parts in slot order after it, so the
\* css of every other live part is where it was.
C30_OthersUnchanged ==
    [][(/\ Len(history') = Len(history) + 1
        /\ history'[Len(history')].kind \in {"updateStyle", "removeStyle"}
        /\ ~env.styleSheet /\ singletonElement # Null
        /\ SlotTexts = LiveSlotCss)
           => SlotTexts' = LiveSlotCss']_vars

\* ---------------------------------------------------------------- top insertion across targets
\* The installs with insertAt "top" into a target that resolves.
TopInstalls ==
    {j \in DOMAIN history : /\ history[j].kind = "install"
                            /\ history[j].options.insertAt = "top"
                            /\ history[j].options.insertInto \in Targets}

\* C31: with insertAt "top" and different insertInto targets no install
\* raises an error, every element it inserted that is attached is a child of
\* the target of its install, and in every target the elements inserted at
\* the top come before the children that were not.
C31_OwnTarget ==
    /\ \A j \in TopInstalls :
           /\ history[j].err = NoError
           /\ \A n \in Ops(j, "insert") :
                  Attached(n) => nodes[n].parent = history[j].options.insertInto
    /\ \A t \in Targets : \A p, q \in DOMAIN children[t] :
           (p < q /\ children[t][q] \in TopElements) => children[t][p] \in TopElements

\* ---------------------------------------------------------------- a call that throws
\* C32: an install or update(newList) that raises an error for an unresolved
\* target or an invalid insertAt leaves the registry, the entries with their
\* refs, the children of every target, the top list and the slot counter of
\* singleton mode as they were before the call.
C32_FailedCallNoEffect ==
    [][(/\ Len(history') = Len(history) + 1
        /\ history'[Len(history')].kind \in {"install", "update"}
        /\ history'[Len(history')].err \in {"NoStyleTarget", "InvalidInsertAt"})
           => /\ cache' = cache /\ domStyles' = domStyles
              /\ children' = children
              /\ styleElementsInsertedAtTop' = styleElementsInsertedAtTop
              /\ singletonCounter' = singletonCounter]_vars

====
